---- MODULE Spec2Model ----
(***************************************************************************)
(* Ingestion and review pipeline of prospectorAIDE (src/utils.py):         *)
(*   - the listing walker scrape_articles_chainstoreage,                    *)
(*   - the batch reviewer review_articles with the reply clean-up of       *)
(*     call_bedrock_llm and the JSON repair cascade.                        *)
(* Dates are day numbers, URLs are page and article numbers, a text is a   *)
(* sequence of lexical tokens.                                              *)
(***************************************************************************)
EXTENDS Integers, Sequences, FiniteSets, TLC

\* ------------------------------------------------------------------ bounds
NumPages == 2        \* listing pages of the site
MaxPerPage == 2      \* stubs one listing page can hold
MaxDate == 3         \* dates are the days 1..MaxDate

\* The accumulator and the page counter stop growing at these sizes; only a
\* walk that fetches some page twice gets there.
MaxArticles == NumPages * MaxPerPage + 1
MaxPageCount == NumPages + 1

\* -------------------------------------------------------------- date strings
NoDate == 0          \* the field is missing, None or ""
BadDate == -1        \* a string none of parse_date's formats accepts
Dates == 1..MaxDate

\* parse_date: None (NoDate) for an empty or unparseable string, else the date.
parse_date(date_string) ==
    IF date_string = NoDate THEN NoDate
    ELSE IF date_string \in Dates THEN date_string
    ELSE NoDate

\* ------------------------------------------------------------------ the site
\* What extract_articles_chainstoreage can put in a stub's 'date' and
\* 'date_from_url': an explicit date that parses (no URL date needed), or an
\* explicit date that is missing or unparseable beside any URL date.
UrlDates == {NoDate, 1, MaxDate}
StubDates ==
    {<<d, NoDate>> : d \in Dates} \cup ({NoDate, BadDate} \X UrlDates)

Stub(u, sd) == [url |-> u, date |-> sd[1], date_from_url |-> sd[2]]

\* The stubs of page p: the article at position k of page p has its own URL.
PageArticles(p, sds) ==
    [k \in 1..Len(sds) |-> Stub((p - 1) * MaxPerPage + k, sds[k])]

SeqsUpTo(S, n) == UNION {[1..m -> S] : m \in 0..n}

\* data as fetch_and_parse_chainestoreage returns it: None, or the page's
\* articles and the pagination's next_url (0: has_next is False).
NoData == [ok |-> FALSE, articles |-> <<>>, next |-> 0]
PageData(p) ==
    {[ok |-> TRUE, articles |-> PageArticles(p, sds), next |-> n] :
        sds \in SeqsUpTo(StubDates, MaxPerPage), n \in 0..NumPages}

VARIABLES
    site,            \* what each listing page serves, once it has been fetched
    cutoff_date,
    current_url,     \* 0 is None
    page_count,
    reached_cutoff,
    all_articles,
    data,
    idx,             \* position of the for loop over data['articles']
    wpc              \* where the walk is: Fetching, Scanning, Paging, Done

walkVars == <<site, cutoff_date, current_url, page_count, reached_cutoff,
              all_articles, data, idx, wpc>>

\* review_articles
VARIABLES
    articles,        \* the list passed to review_articles
    total_articles,
    num_batches,
    batch_size,
    i,               \* the loop variable of range(0, total_articles, batch_size)
    prompts,         \* the batch of every call_bedrock_llm call made so far
    response_text,   \* the model's raw reply to the last call
    llm_response,    \* what call_bedrock_llm returned for it
    all_results,
    rpc              \* Idle, Start, Loop, Done, Raised

reviewVars == <<articles, total_articles, num_batches, batch_size, i, prompts,
                response_text, llm_response, all_results, rpc>>

\* find_articles_chainstoreage
VARIABLES
    stubs,           \* the list scrape_articles_chainstoreage returned
    clean_articles,
    ipc              \* Idle, Loop, Done, Raised

identVars == <<stubs, clean_articles, ipc>>

\* analyze_article
VARIABLES
    article_in,        \* analyze_article's parameter, the caller's record
    llm_call,          \* what call_bedrock_llm did: raised, or the text returned
    analyzed_article,  \* the record analyze_article returns
    apc                \* Idle, Call, Done

analyzeVars == <<article_in, llm_call, analyzed_article, apc>>

\* the data files of the Surveying and Prospecting pages
VARIABLES
    prospects_new,   \* the records in data/prospects-new.json
    prospects_kept,  \* the records in data/prospects-kept.json
    articles_kept    \* the records in data/articles-kept.json

storeVars == <<prospects_new, prospects_kept, articles_kept>>

\* clean_text
VARIABLES
    raw_text,      \* the text clean_text is given, as runs of characters
    cleaned_text,  \* the text it returns
    cpc            \* Idle, Start, Once, Twice

cleanVars == <<raw_text, cleaned_text, cpc>>

\* extract_articles_chainstoreage
VARIABLES
    soup,       \* the parsed page: its cards, teaser cards and embedded JSON items
    extracted,  \* the list of articles built so far
    epc         \* Idle, Cards, Teasers, Scripts, Done

extractVars == <<soup, extracted, epc>>

\* st.session_state and the Analyzed select box of the Prospecting page
VARIABLES
    analyze_process_started,
    analyze_process_complete,
    keep_process_started,
    keep_process_complete,
    analyzed_filter            \* All, Analyzed, Not Analyzed

pageVars == <<analyze_process_started, analyze_process_complete, keep_process_started, keep_process_complete, analyzed_filter>>

\* calls of keep_article, keep_all_articles and remove_article
VARIABLES
    kept_call,      \* the last call: its name and its arguments
    kept_articles,  \* the list that call loaded from the kept file
    kept_returned   \* what it returned

keptVars == <<kept_call, kept_articles, kept_returned>>

vars == <<walkVars, reviewVars, identVars, analyzeVars, storeVars,
         cleanVars, extractVars, pageVars, keptVars>>

\* what each function leaves alone
otherThanWalk ==
    <<reviewVars, identVars, analyzeVars, storeVars, cleanVars,
      extractVars, pageVars, keptVars>>
otherThanReview ==
    <<walkVars, identVars, analyzeVars, storeVars, cleanVars,
      extractVars, pageVars, keptVars>>
otherThanIdent ==
    <<walkVars, reviewVars, analyzeVars, storeVars, cleanVars,
      extractVars, pageVars, keptVars>>
otherThanAnalyze ==
    <<walkVars, reviewVars, identVars, storeVars, cleanVars,
      extractVars, pageVars, keptVars>>
otherThanStore ==
    <<walkVars, reviewVars, identVars, analyzeVars, articles_kept,
      cleanVars, extractVars, pageVars, keptVars>>
otherThanClean ==
    <<walkVars, reviewVars, identVars, analyzeVars, storeVars,
      extractVars, pageVars, keptVars>>
otherThanExtract ==
    <<walkVars, reviewVars, identVars, analyzeVars, storeVars,
      cleanVars, pageVars, keptVars>>
otherThanProspecting ==
    <<walkVars, reviewVars, identVars, analyzeVars, cleanVars, extractVars,
      keptVars, articles_kept>>
otherThanPage ==
    <<walkVars, reviewVars, identVars, analyzeVars, storeVars,
      cleanVars, extractVars, keptVars>>
otherThanKept ==
    <<walkVars, reviewVars, identVars, analyzeVars, cleanVars, extractVars,
      pageVars, articles_kept>>

\* list.append, up to the size the model keeps
Accumulate(acc, a) == IF Len(acc) < MaxArticles THEN Append(acc, a) ELSE acc

\* The date the for loop compares with the cutoff.
ArticleDate(article) ==
    IF article.date # NoDate THEN parse_date(article.date)
    ELSE IF article.date_from_url # NoDate THEN parse_date(article.date_from_url)
    ELSE NoDate

\* a slip of the comparison: an article dated at the cutoff stops the walk too
BeforeCutoff_inclusive(article, cutoff) ==
    ArticleDate(article) # NoDate /\ ArticleDate(article) <= cutoff

\* a slip of the date test: a stub without a date counts as older than any
\* cutoff
BeforeCutoff_undatedOld(article, cutoff) ==
    ArticleDate(article) < cutoff

BeforeCutoff(article, cutoff) ==
    ArticleDate(article) # NoDate /\ ArticleDate(article) < cutoff

CleanIdle ==
    /\ raw_text = <<>>
    /\ cleaned_text = <<>>
    /\ cpc = "Idle"

ExtractIdle ==
    /\ soup = [cards |-> <<>>, teaser_cards |-> <<>>, json_items |-> <<>>]
    /\ extracted = <<>>
    /\ epc = "Idle"

PageIdle ==
    /\ analyze_process_started = FALSE
    /\ analyze_process_complete = FALSE
    /\ keep_process_started = FALSE
    /\ keep_process_complete = FALSE
    /\ analyzed_filter = "All"

KeptIdle ==
    /\ kept_call = [articles |-> <<>>, op |-> "none", article_id |-> 0]
    /\ kept_articles = <<>>
    /\ kept_returned = FALSE

\* load_json_file of a file that does not exist yet gives [].
StoreIdle ==
    /\ prospects_new = <<>>
    /\ prospects_kept = <<>>
    /\ articles_kept = <<>>

NoRecord == [none |-> TRUE]
Returned(text) == [text |-> text, raised |-> FALSE]
CallRaised == [text |-> <<>>, raised |-> TRUE]

AnalyzeIdle ==
    /\ article_in = NoRecord
    /\ llm_call = Returned(<<>>)
    /\ analyzed_article = NoRecord
    /\ apc = "Idle"

IdentIdle ==
    /\ stubs = <<>>
    /\ clean_articles = <<>>
    /\ ipc = "Idle"

ReviewIdle ==
    /\ articles = <<>>
    /\ total_articles = 0
    /\ num_batches = 0
    /\ batch_size = 0
    /\ i = 0
    /\ prompts = <<>>
    /\ response_text = <<>>
    /\ llm_response = <<>>
    /\ all_results = <<>>
    /\ rpc = "Idle"

WalkInit ==
    /\ ReviewIdle
    /\ IdentIdle
    /\ AnalyzeIdle
    /\ StoreIdle
    /\ CleanIdle
    /\ ExtractIdle
    /\ PageIdle
    /\ KeptIdle
    /\ site = [p \in 1..NumPages |-> NoData]
    /\ cutoff_date \in 2..MaxDate
    /\ current_url = 1
    /\ page_count = 1
    /\ reached_cutoff = FALSE
    /\ all_articles = <<>>
    /\ data = NoData
    /\ idx = 0
    /\ wpc = "Fetching"

\* a slip of the failure path: the partial results are thrown away
FetchFailure_discard ==
    /\ wpc = "Fetching"
    /\ data' = NoData
    /\ wpc' = "Done"
    /\ all_articles' = <<>>
    /\ UNCHANGED <<site, cutoff_date, current_url, page_count, reached_cutoff,
                   idx, otherThanWalk>>

\* requests.get or the parse raises: fetch_and_parse returns None and the
\* loop breaks.
FetchFailure ==
    /\ wpc = "Fetching"
    /\ data' = NoData
    /\ wpc' = "Done"
    /\ UNCHANGED <<site, cutoff_date, current_url, page_count, reached_cutoff,
                   all_articles, idx, otherThanWalk>>

\* The fetch succeeds; a page without articles ends the walk.
FetchPage ==
    /\ wpc = "Fetching"
    /\ \E d \in PageData(current_url) :
        /\ site[current_url].ok => d = site[current_url]
        /\ site' = [site EXCEPT ![current_url] = d]
        /\ data' = d
        /\ IF d.articles = <<>>
              THEN wpc' = "Done" /\ idx' = idx
              ELSE wpc' = "Scanning" /\ idx' = 1
    /\ UNCHANGED <<cutoff_date, current_url, page_count, reached_cutoff,
                   all_articles, otherThanWalk>>

\* One turn of the for loop over the page's articles.
ScanArticle ==
    /\ wpc = "Scanning"
    /\ LET article == data.articles[idx] IN
        /\ all_articles' = Accumulate(all_articles, article)
        /\ IF BeforeCutoff(article, cutoff_date)
              THEN /\ reached_cutoff' = TRUE
                   /\ wpc' = "Paging"
                   /\ idx' = idx
              ELSE /\ reached_cutoff' = reached_cutoff
                   /\ IF idx < Len(data.articles)
                         THEN wpc' = "Scanning" /\ idx' = idx + 1
                         ELSE wpc' = "Paging" /\ idx' = idx
    /\ UNCHANGED <<site, cutoff_date, current_url, page_count, data,
                   otherThanWalk>>

\* After the for loop: stop at the cutoff, else follow next_url if any.
NextPage ==
    /\ wpc = "Paging"
    /\ IF reached_cutoff
          THEN /\ wpc' = "Done"
               /\ UNCHANGED <<current_url, page_count>>
          ELSE IF data.next # 0
          THEN /\ current_url' = data.next
               /\ page_count' = IF page_count < MaxPageCount
                                   THEN page_count + 1 ELSE page_count
               /\ wpc' = "Fetching"
          ELSE /\ current_url' = 0
               /\ page_count' = page_count
               /\ wpc' = "Done"
    /\ UNCHANGED <<site, cutoff_date, reached_cutoff, all_articles, data, idx,
                   otherThanWalk>>

WalkNext == FetchFailure \/ FetchPage \/ ScanArticle \/ NextPage

\* ---------------------------------------------------------------- JSON texts
\* A text is a sequence of tokens: "[", "]", ",", a code fence, a run of prose
\* without braces, a number, a flat JSON object {...} (with the dict it
\* denotes) and a {...} span that is not valid JSON. Texts are flat: no
\* bracket inside a bracket.
NoObj == [none |-> TRUE]
Tok(t) == [t |-> t, obj |-> NoObj]
ObjTok(d) == [t |-> "obj", obj |-> d]
LB == Tok("[")
RB == Tok("]")
COMMA == Tok(",")
FENCE == Tok("fence")
PROSE == Tok("prose")
NUM == Tok("42")
BADOBJ == Tok("{bad}")

\* the tokens that start with { and end with }
IsBrace(tok) == tok.t \in {"obj", "{bad}"}
BracePositions(text) == {k \in 1..Len(text) : IsBrace(text[k])}

Least(S) == CHOOSE k \in S : \A j \in S : k <= j
Greatest(S) == CHOOSE k \in S : \A j \in S : k >= j

\* re.search of the fenced-object pattern: a code fence right before a {,
\* then as little as possible up to a } right before a fence.
FenceEnds(text, k) ==
    {j \in (k + 1)..(Len(text) - 1) : IsBrace(text[j]) /\ text[j + 1] = FENCE}
FenceStarts(text) ==
    {k \in 1..(Len(text) - 1) :
        text[k] = FENCE /\ IsBrace(text[k + 1]) /\ FenceEnds(text, k) # {}}
FencedObject(text) ==
    LET k == Least(FenceStarts(text))
    IN  SubSeq(text, k + 1, Least(FenceEnds(text, k)))

\* re.search / re.findall of the greedy brace pattern: from the first { to
\* the last }.
BraceSpan(text) ==
    SubSeq(text, Least(BracePositions(text)), Greatest(BracePositions(text)))

\* The clean-up call_bedrock_llm applies to the model's reply.
CleanReply(text) ==
    IF FenceStarts(text) # {} THEN FencedObject(text)
    ELSE IF BracePositions(text) # {} THEN BraceSpan(text)
    ELSE text

\* json.loads: the value, or a JSONDecodeError (ok = FALSE).
JsonError == [ok |-> FALSE, type |-> "", items |-> <<>>]
JsonValue(type, items) == [ok |-> TRUE, type |-> type, items |-> items]

IsElements(inner) ==
    /\ Len(inner) % 2 = 1
    /\ \A k \in 1..Len(inner) :
        IF k % 2 = 1 THEN inner[k].t = "obj" ELSE inner[k] = COMMA

json_loads(text) ==
    IF Len(text) = 1 /\ text[1].t = "obj" THEN JsonValue("dict", <<text[1].obj>>)
    ELSE IF Len(text) = 1 /\ text[1] = NUM THEN JsonValue("num", <<>>)
    ELSE IF Len(text) >= 2 /\ text[1] = LB /\ text[Len(text)] = RB
    THEN LET inner == SubSeq(text, 2, Len(text) - 1)
         IN  IF inner = <<>> THEN JsonValue("list", <<>>)
             ELSE IF IsElements(inner)
             THEN JsonValue("list",
                    [k \in 1..((Len(inner) + 1) \div 2) |-> inner[2 * k - 1].obj])
             ELSE JsonError
    ELSE JsonError

\* ------------------------------------------------------------ review_articles
max_batch_size == 10

\* a slip of the count: the + 1 is left out
NumBatches_floor(total) ==
    IF total <= max_batch_size THEN 1 ELSE total \div max_batch_size

NumBatches(total) ==
    IF total <= max_batch_size THEN 1 ELSE (total \div max_batch_size) + 1

BatchSize(total) ==
    IF total <= max_batch_size THEN total
    ELSE (total \div NumBatches(total)) + 1

\* a slip of the slice: end_idx is one short, the last stub of a full batch
\* is left out
BatchAt_short(list, start, size) ==
    SubSeq(list, start + 1,
           IF start + size < Len(list) THEN start + size - 1 ELSE Len(list))

\* articles[i:end_idx] with end_idx = min(i + batch_size, total_articles)
BatchAt(list, start, size) ==
    SubSeq(list, start + 1,
           IF start + size < Len(list) THEN start + size ELSE Len(list))

\* An element of all_results: a dict, or a string.
DictElem(d) == [kind |-> "dict", key |-> "", rec |-> d]
StrElem(k) == [kind |-> "str", key |-> k, rec |-> NoObj]

\* The keys of a dict in the order the prompt lists the fields.
KeyOrder == <<"articleID", "title", "excerpt", "company", "location", "url",
              "date", "compatibility", "error">>
Keys(d) == SelectSeq(KeyOrder, LAMBDA k : k \in DOMAIN d)

\* What list.extend(parsed_json) appends: the elements of a list, the keys of
\* a dict.
Extended(value) ==
    IF value.type = "list"
    THEN [k \in 1..Len(value.items) |-> DictElem(value.items[k])]
    ELSE [k \in 1..Len(Keys(value.items[1])) |-> StrElem(Keys(value.items[1])[k])]

\* if key not in d: d[key] = v
SetDefault(d, key, v) ==
    IF key \in DOMAIN d THEN d
    ELSE [x \in DOMAIN d \cup {key} |-> IF x = key THEN v ELSE d[x]]

\* a slip of the fallback: only the first article of the batch is kept
Fallback_first(batch) ==
    [k \in 1..(IF Len(batch) > 1 THEN 1 ELSE Len(batch)) |->
        DictElem(SetDefault(SetDefault(SetDefault(batch[k],
            "compatibility", 0), "company", ""), "location", ""))]

\* The fallback loop: a copy of every article of the batch with defaults.
Fallback(batch) ==
    [k \in 1..Len(batch) |->
        DictElem(SetDefault(SetDefault(SetDefault(batch[k],
            "compatibility", 0), "company", ""), "location", ""))]

Added(elems) == [raised |-> FALSE, added |-> elems]

\* The try/except cascade on one batch's reply: what is appended to
\* all_results, or a TypeError out of review_articles (extend of a number is
\* not caught by except json.JSONDecodeError).
ParseBatch(text, batch) ==
    LET asis == json_loads(text)
        wrapped == json_loads(<<LB>> \o text \o <<RB>>)
    IN  IF asis.ok
        THEN IF asis.type = "num" THEN [raised |-> TRUE, added |-> <<>>]
             ELSE Added(Extended(asis))
        ELSE IF text # <<>> /\ IsBrace(text[1])
        THEN IF wrapped.ok THEN Added(Extended(wrapped))
             ELSE Added(Fallback(batch))
        ELSE IF BracePositions(text) # {}
        THEN LET fixed == json_loads(<<LB>> \o BraceSpan(text) \o <<RB>>)
             IN  IF fixed.ok THEN Added(Extended(fixed))
                 ELSE Added(Fallback(batch))
        ELSE Added(Fallback(batch))

\* ------------------------------------------------------------ the LLM's replies
MaxStubs == 12       \* longest list reviewed with every kind of reply
MaxCount == 120      \* longest list reviewed with well-formed replies
Scores == {0, 80}

InputStubs(n) == [j \in 1..n |-> [url |-> j, articleID |-> j]]

EchoObj(stub, score) ==
    ObjTok([url |-> stub.url, articleID |-> stub.articleID,
            compatibility |-> score, company |-> "Acme", location |-> ""])

\* the objects for the first k stubs of the batch, separated by commas
EchoList(batch, k, score) ==
    [n \in 1..(IF k = 0 THEN 0 ELSE 2 * k - 1) |->
        IF n % 2 = 1 THEN EchoObj(batch[(n + 1) \div 2], score) ELSE COMMA]

ArrayText(batch, k, score) == <<LB>> \o EchoList(batch, k, score) \o <<RB>>

\* The array the prompt asks for.
WellFormedReplies(batch) == {ArrayText(batch, Len(batch), 80)}

\* Every shape of reply: arrays of k objects (k below the batch size too),
\* with fences or prose around them, objects without brackets, a bare object,
\* garbage and a bare number.
AllReplies(batch) ==
    {ArrayText(batch, k, sc) : k \in 0..Len(batch), sc \in Scores}
    \cup {<<FENCE>> \o ArrayText(batch, Len(batch), 80) \o <<FENCE>>,
          <<PROSE>> \o ArrayText(batch, Len(batch), 80) \o <<PROSE>>,
          EchoList(batch, Len(batch), 80),
          <<EchoObj(batch[1], 80)>>,
          <<FENCE, EchoObj(batch[1], 80), FENCE>>,
          <<PROSE, EchoObj(batch[1], 80), PROSE>>,
          <<EchoObj(batch[1], 80), PROSE, EchoObj(batch[1], 0)>>,
          <<LB, EchoObj(batch[1], 80), COMMA, BADOBJ, RB>>,
          <<BADOBJ>>, <<PROSE>>, <<LB, PROSE>>, <<NUM>>}

\* The string call_bedrock_llm returns when the call raises: {"error": "..."}
\* is a JSON object unless the message holds a double quote.
ErrorReplies == {<<ObjTok([error |-> "msg"])>>, <<BADOBJ>>}

\* ----------------------------------------------------------- reviewer actions
WalkIdle ==
    /\ site = [p \in 1..NumPages |-> NoData]
    /\ cutoff_date = MaxDate
    /\ current_url = 0
    /\ page_count = 1
    /\ reached_cutoff = FALSE
    /\ all_articles = <<>>
    /\ data = NoData
    /\ idx = 0
    /\ wpc = "Idle"

ReviewInitOf(n) ==
    /\ WalkIdle
    /\ IdentIdle
    /\ AnalyzeIdle
    /\ StoreIdle
    /\ CleanIdle
    /\ ExtractIdle
    /\ PageIdle
    /\ KeptIdle
    /\ articles \in {InputStubs(k) : k \in 0..n}
    /\ total_articles = 0
    /\ num_batches = 0
    /\ batch_size = 0
    /\ i = 0
    /\ prompts = <<>>
    /\ response_text = <<>>
    /\ llm_response = <<>>
    /\ all_results = <<>>
    /\ rpc = "Start"

\* The sizing at the head of review_articles. range(0, 0, 0) raises a
\* ValueError for an empty list.
ReviewStart ==
    /\ rpc = "Start"
    /\ total_articles' = Len(articles)
    /\ num_batches' = NumBatches(Len(articles))
    /\ batch_size' = BatchSize(Len(articles))
    /\ i' = 0
    /\ rpc' = IF BatchSize(Len(articles)) = 0 THEN "Raised" ELSE "Loop"
    /\ UNCHANGED <<articles, prompts, response_text, llm_response, all_results,
                   otherThanReview>>

\* a slip of the fallback: the records of the earlier batches are dropped
\* when a reply cannot be parsed
BatchTurn_reset(batch, raw, cleaned) ==
    LET r == ParseBatch(cleaned, batch) IN
    /\ prompts' = Append(prompts, batch)
    /\ response_text' = raw
    /\ llm_response' = cleaned
    /\ all_results' = IF json_loads(cleaned).ok THEN all_results \o r.added
                       ELSE r.added
    /\ IF r.raised
          THEN rpc' = "Raised" /\ i' = i
          ELSE /\ i' = i + batch_size
               /\ rpc' = IF i + batch_size < total_articles
                            THEN "Loop" ELSE "Done"
    /\ UNCHANGED <<articles, total_articles, num_batches, batch_size,
                 otherThanReview>>

\* The rest of one turn of the batch loop once call_bedrock_llm has returned
\* `cleaned` for the reply `raw`.
BatchTurn(batch, raw, cleaned) ==
    LET r == ParseBatch(cleaned, batch) IN
    /\ prompts' = Append(prompts, batch)
    /\ response_text' = raw
    /\ llm_response' = cleaned
    /\ all_results' = all_results \o r.added
    /\ IF r.raised
          THEN rpc' = "Raised" /\ i' = i
          ELSE /\ i' = i + batch_size
               /\ rpc' = IF i + batch_size < total_articles
                            THEN "Loop" ELSE "Done"
    /\ UNCHANGED <<articles, total_articles, num_batches, batch_size,
                 otherThanReview>>

\* One turn of the loop: the model replies.
ReviewBatch(varied) ==
    /\ rpc = "Loop"
    /\ LET batch == BatchAt(articles, i, batch_size) IN
        \E raw \in (IF varied THEN AllReplies(batch)
                    ELSE WellFormedReplies(batch)) :
            BatchTurn(batch, raw, CleanReply(raw))

\* One turn of the loop: client.converse raises and call_bedrock_llm returns
\* the error string.
ReviewBatchLLMError ==
    /\ rpc = "Loop"
    /\ \E err \in ErrorReplies :
        BatchTurn(BatchAt(articles, i, batch_size), <<>>, err)

ReviewNext == ReviewStart \/ ReviewBatch(TRUE) \/ ReviewBatchLLMError
ReviewSpec == ReviewInitOf(MaxStubs) /\ [][ReviewNext]_vars

\* Lists of up to MaxCount stubs, every reply the array the prompt asks for.
BatchNext == ReviewStart \/ ReviewBatch(FALSE)
BatchSpec == ReviewInitOf(MaxCount) /\ [][BatchNext]_vars

\* ------------------------------------------------ find_articles_chainstoreage
MaxIdentStubs == 2   \* longest list of stubs given an articleID

\* The 'url' of a stub: the href of its link, "" for an empty href, or None
\* when an item of the embedded JSON has no url.
NoneUrl == "None"
Urls == {"", NoneUrl, "u1", "u2"}
Titles == {"t1", "t2"}

\* The stubs the extractor can return, as far as the loop reads them.
RawStubs ==
    [url : Urls, date : {NoDate, 1}, date_from_url : {NoDate}, title : Titles]

\* article.get(key, default)
Get(article, key, default) ==
    IF key \in DOMAIN article THEN article[key] ELSE default

\* uuid.uuid5 of the fixed namespace and the name: a hash of the two, taken
\* as free of collisions.
namespace == "6ba7b810-9dad-11d1-80b4-00c04fd430c8"
generate_deterministic_uuid(url) == [ns |-> namespace, name |-> url]

\* the 'date' of the clean article
CleanDate(article) ==
    IF article.date # NoDate THEN article.date
    ELSE IF article.date_from_url # NoDate THEN article.date_from_url
    ELSE NoDate

clean_article(article) ==
    [url |-> Get(article, "url", ""),
     date |-> CleanDate(article),
     articleID |-> generate_deterministic_uuid(Get(article, "url", "")),
     title |-> Get(article, "title", "N/A")]

IdentInit ==
    /\ WalkIdle
    /\ ReviewIdle
    /\ AnalyzeIdle
    /\ StoreIdle
    /\ CleanIdle
    /\ ExtractIdle
    /\ PageIdle
    /\ KeptIdle
    /\ stubs \in SeqsUpTo(RawStubs, MaxIdentStubs)
    /\ clean_articles = <<>>
    /\ ipc = IF stubs = <<>> THEN "Done" ELSE "Loop"

\* One turn of the loop over the stubs.
AssignID ==
    /\ ipc = "Loop"
    /\ Get(stubs[Len(clean_articles) + 1], "url", "") # NoneUrl
    /\ clean_articles' =
            Append(clean_articles, clean_article(stubs[Len(clean_articles) + 1]))
    /\ ipc' = IF Len(clean_articles) + 1 < Len(stubs) THEN "Loop" ELSE "Done"
    /\ UNCHANGED <<stubs, otherThanIdent>>

\* uuid5 encodes the name as UTF-8: a url of None raises a TypeError, which
\* nothing in find_articles_chainstoreage catches.
AssignIDRaises ==
    /\ ipc = "Loop"
    /\ Get(stubs[Len(clean_articles) + 1], "url", "") = NoneUrl
    /\ ipc' = "Raised"
    /\ UNCHANGED <<stubs, clean_articles, otherThanIdent>>

IdentNext == AssignID \/ AssignIDRaises
IdentSpec == IdentInit /\ [][IdentNext]_vars

\* ------------------------------------------------------------ analyze_article
\* d[key] = v
Put(d, key, v) ==
    [x \in DOMAIN d \cup {key} |-> IF x = key THEN v ELSE d[x]]

\* The value of a score field in a reply: an integer, a float (in tenths), a
\* string of digits, another string, or null; NoScore for a reply without
\* the field.
IntVal(n) == [n |-> n, kind |-> "int"]
FloatVal(tenths) == [n |-> tenths, kind |-> "float"]
DigitStr(n) == [n |-> n, kind |-> "numstr"]
WordStr == [n |-> 0, kind |-> "word"]
Null == [n |-> 0, kind |-> "null"]
NoScore == [n |-> 0, kind |-> "absent"]

\* int(v): the integer, truncating a float; a ValueError for a string that
\* is no integer literal and a TypeError for None (ok = FALSE).
int(v) ==
    CASE v.kind = "int" -> [n |-> v.n, ok |-> TRUE]
      [] v.kind = "float" -> [n |-> v.n \div 10, ok |-> TRUE]
      [] v.kind = "numstr" -> [n |-> v.n, ok |-> TRUE]
      [] OTHER -> [n |-> 0, ok |-> FALSE]

Absent == "absent"
now == "now"

\* The records analyze_article is given: a reviewed record, with or without
\* company, location and compatibility, analyzed before or not.
BaseRecord ==
    [url |-> "u1", date |-> 1, articleID |-> 1, title |-> "t1", excerpt |-> "e1"]
PriorAnalysis ==
    [analysis_explanation |-> "old", analysis_date |-> "then",
     analysis_id |-> "id0", original_compatibility |-> 0]
WithField(d, key, v) == IF v = Absent THEN d ELSE Put(d, key, v)
ArticleRecords ==
    {LET r1 == WithField(BaseRecord, "company", co)
         r2 == WithField(r1, "location", lo)
         r3 == IF sc < 0 THEN r2 ELSE Put(r2, "compatibility", sc)
     IN  IF an THEN Put(r3, "analysis", PriorAnalysis) ELSE r3 :
        co \in {"", "Acme", Absent}, lo \in {Absent, "Paris"},
        sc \in {-1, 0, 80}, an \in BOOLEAN}

\* The objects a reply can hold; nothing keeps the model's score within the
\* 0 to 100 the prompt asks for.
ReplyScores ==
    {IntVal(85), FloatVal(857), DigitStr(85), WordStr, Null, IntVal(150)}
AnalysisDicts ==
    {LET d1 == WithField([analysis_explanation |-> "why"],
                         "analysis_company", co)
         d2 == WithField(d1, "analysis_location", lo)
     IN  IF sc = NoScore THEN d2
         ELSE Put(d2, "analysis_compatibility", sc) :
        co \in {"", Absent, "Beta"}, lo \in {"", Absent, "Rome"},
        sc \in ReplyScores \cup {NoScore}}

\* The replies of the model to the analysis prompt: the object alone, in a
\* fence, in prose; prose alone; nothing; a span that is no JSON; two objects;
\* a number; an empty array.
AnalyzeReplies ==
    UNION {{<<ObjTok(d)>>, <<FENCE, ObjTok(d), FENCE>>,
            <<PROSE, ObjTok(d), PROSE>>} : d \in AnalysisDicts}
    \cup {<<PROSE>>, <<>>, <<BADOBJ>>, <<PROSE, BADOBJ>>,
          <<ObjTok([analysis_explanation |-> "why"]), PROSE,
            ObjTok([analysis_explanation |-> "why"])>>,
          <<NUM>>, <<LB, RB>>}

\* The structure used when no JSON is found in the reply.
Unparsed ==
    [error |-> "Invalid JSON format in LLM response",
     analysis_explanation |-> "Could not parse LLM response as JSON."]

\* The parse of the reply: json.loads, else the fenced object, else the
\* brace span, else the structure above. The json.loads of a fenced object
\* or of a brace span runs inside the except clause, so its JSONDecodeError
\* leaves the cascade (ok = FALSE).
ParseAnalysis(text) ==
    IF json_loads(text).ok THEN json_loads(text)
    ELSE IF FenceStarts(text) # {} THEN json_loads(FencedObject(text))
    ELSE IF BracePositions(text) # {} THEN json_loads(BraceSpan(text))
    ELSE JsonValue("dict", <<Unparsed>>)

\* a slip of the except clause: the analysis it writes has no analysis_id
ErrorAnalysis_noid(id) ==
    [error |-> "msg", analysis_date |-> now]

\* The analysis written by the except clause at the end of analyze_article.
ErrorAnalysis(id) ==
    [error |-> "msg", analysis_date |-> now, analysis_id |-> id]

\* a slip of the except branch: a score that cannot be converted sets the
\* record's score to 0
UpdateScore_zero(rec, analysis_data) ==
    IF "analysis_compatibility" \in DOMAIN analysis_data
    THEN IF int(analysis_data.analysis_compatibility).ok
         THEN Put(rec, "compatibility",
                  int(analysis_data.analysis_compatibility).n)
         ELSE Put(rec, "compatibility", 0)
    ELSE rec

\* The score after the reply's analysis_compatibility has been read.
UpdateScore(rec, analysis_data) ==
    IF "analysis_compatibility" \in DOMAIN analysis_data
    THEN IF int(analysis_data.analysis_compatibility).ok
         THEN Put(rec, "compatibility",
                  int(analysis_data.analysis_compatibility).n)
         ELSE SetDefault(rec, "compatibility", 0)
    ELSE rec

\* a slip of the test: an empty analysis_company or analysis_location
\* overwrites the field too
UpdateField_always(rec, analysis_data, key, akey) ==
    IF akey \in DOMAIN analysis_data THEN Put(rec, key, analysis_data[akey])
    ELSE rec

\* company and location are overwritten by a non-empty analysis value.
UpdateField(rec, analysis_data, key, akey) ==
    IF akey \in DOMAIN analysis_data /\ analysis_data[akey] # ""
    THEN Put(rec, key, analysis_data[akey])
    ELSE rec

\* analyze_article from the call of the LLM on: `call` is what
\* call_bedrock_llm did, `id` the uuid4 drawn for the analysis.
analyze_article(rec, call, id) ==
    LET failed == Put(rec, "analysis", ErrorAnalysis(id))
        parsed == ParseAnalysis(call.text)
    IN  IF call.raised \/ call.text = <<>> THEN failed
        ELSE IF ~parsed.ok \/ parsed.type # "dict" THEN failed
        ELSE IF "compatibility" \notin DOMAIN rec THEN failed
        ELSE LET analysis_data == Put(Put(Put(parsed.items[1],
                            "analysis_date", now), "analysis_id", id),
                            "original_compatibility", rec.compatibility)
                 a1 == Put(rec, "analysis", analysis_data)
                 a2 == UpdateScore(a1, analysis_data)
                 a3 == UpdateField(a2, analysis_data,
                                   "company", "analysis_company")
             IN  UpdateField(a3, analysis_data,
                             "location", "analysis_location")

\* str(uuid.uuid4()): a new identifier each time.
AnalysisIds == {"id1", "id2"}

AnalyzeInit ==
    /\ WalkIdle
    /\ ReviewIdle
    /\ IdentIdle
    /\ StoreIdle
    /\ CleanIdle
    /\ ExtractIdle
    /\ PageIdle
    /\ KeptIdle
    /\ article_in \in ArticleRecords
    /\ llm_call = Returned(<<>>)
    /\ analyzed_article = NoRecord
    /\ apc = "Call"

\* a slip of the first line: no copy is made, the caller's record is the
\* one that is written to
Analyzed_inplace(call) ==
    /\ apc = "Call"
    /\ llm_call' = call
    /\ \E id \in AnalysisIds :
        analyzed_article' = analyze_article(article_in, call, id)
    /\ article_in' = analyzed_article'
    /\ apc' = "Done"
    /\ UNCHANGED otherThanAnalyze

\* analyze_article works on article.copy() and assigns to the copy only.
Analyzed(call) ==
    /\ apc = "Call"
    /\ llm_call' = call
    /\ \E id \in AnalysisIds :
        analyzed_article' = analyze_article(article_in, call, id)
    /\ article_in' = article_in
    /\ apc' = "Done"
    /\ UNCHANGED otherThanAnalyze

\* The model replies and call_bedrock_llm returns the cleaned reply.
AnalyzeArticle == \E raw \in AnalyzeReplies : Analyzed(Returned(CleanReply(raw)))

\* client.converse raises: call_bedrock_llm returns the error string.
AnalyzeLLMError == \E err \in ErrorReplies : Analyzed(Returned(err))

\* boto3.client or the read of the secrets raises, outside the try of
\* call_bedrock_llm: the exception reaches analyze_article.
AnalyzeCallRaises == Analyzed(CallRaised)

AnalyzeNext == AnalyzeArticle \/ AnalyzeLLMError \/ AnalyzeCallRaises
AnalyzeSpec == AnalyzeInit /\ [][AnalyzeNext]_vars

\* ------------------------------------------- the Surveying and Prospecting pages
NumSiteArticles == 2   \* articles the site lists over time

SiteIds == 1..NumSiteArticles

\* A record of find_articles_chainstoreage, as far as the pages read it.
StoreStub(j) == [url |-> j, articleID |-> j, title |-> "t1"]

\* loaded_articles: the articles a crawl finds, in the order of the listing.
LoadedArticles(S) ==
    SelectSeq([j \in SiteIds |-> StoreStub(j)], LAMBDA a : a.articleID \in S)

\* The object the reviewer's LLM returns for a stub, with or without a
\* confidence field beside the compatibility the prompt asks for.
SurveyEcho(stub, conf) ==
    LET o == [url |-> stub.url, articleID |-> stub.articleID,
              compatibility |-> 80, company |-> "Acme", location |-> "",
              title |-> stub.title]
    IN  ObjTok(IF conf THEN Put(o, "confidence", 80) ELSE o)

SurveyArray(batch, conf) ==
    <<LB>> \o [n \in 1..(2 * Len(batch) - 1) |->
                IF n % 2 = 1 THEN SurveyEcho(batch[(n + 1) \div 2], conf)
                ELSE COMMA] \o <<RB>>

\* Replies to the one batch of a survey: the array asked for, prose, an empty
\* array, a number.
SurveyReplies(batch) ==
    {SurveyArray(batch, FALSE), SurveyArray(batch, TRUE),
     <<PROSE>>, <<LB, RB>>, <<NUM>>}

\* The Surveying page's Load/Review Prospects: crawl, review, then
\* save_json_file of the reviewed list over data/prospects-new.json. Up to
\* ten articles are one batch. When review_articles raises (no article
\* found, a reply that is a number) the script stops before the save.
Survey ==
    \E S \in SUBSET SiteIds :
        LET loaded_articles == LoadedArticles(S) IN
        /\ loaded_articles # <<>>
        /\ \E raw \in SurveyReplies(loaded_articles) :
            LET r == ParseBatch(CleanReply(raw), loaded_articles) IN
            /\ ~r.raised
            /\ prospects_new' = [k \in 1..Len(r.added) |-> r.added[k].rec]
        /\ UNCHANGED <<prospects_kept, otherThanStore>>

\* load_data of the Prospecting page: load_json_file numbers the records
\* (index_pos), load_data numbers them again (index); nothing is shown when
\* the first record has no articleID.
load_data(file) ==
    IF file = <<>> THEN <<>>
    ELSE IF "articleID" \notin DOMAIN file[1] THEN <<>>
    ELSE [k \in 1..Len(file) |->
            Put(Put(file[k], "index_pos", k - 1), "index", k - 1)]

\* The Analyzed filter of the page, the other filters left as they are: the
\* confidence filter drops a row without confidence when the column exists.
AnalyzedFilters == {"Analyzed", "All", "Not Analyzed"}
Filtered(arts, selected) ==
    LET hasColumn == \E k \in 1..Len(arts) : "confidence" \in DOMAIN arts[k]
    IN  SelectSeq(arts, LAMBDA a :
            /\ hasColumn => "confidence" \in DOMAIN a
            /\ selected = "Analyzed" => "analysis" \in DOMAIN a
            /\ selected = "Not Analyzed" => "analysis" \notin DOMAIN a)

FilteredIds(arts, selected) ==
    {Filtered(arts, selected)[k].articleID :
        k \in 1..Len(Filtered(arts, selected))}

\* The calls of the LLM made from the page: an analysis with a score, or an
\* empty reply.
StoreCalls ==
    {Returned(<<ObjTok(Put([analysis_explanation |-> "why"],
                           "analysis_compatibility", IntVal(85)))>>),
     Returned(<<>>)}

\* analysis_id is a fresh uuid4 at each analysis; which file a record is in
\* does not depend on it, and the page's analyses draw it from one value.
StoreAnalysisIds == {"id1"}

\* Analyze All: analyze_all of the filtered records, each put back in the
\* place of the record with its articleID, then save_json_file.
AnalyzeAll ==
    \E f \in AnalyzedFilters :
        LET arts == load_data(prospects_new) IN
        /\ FilteredIds(arts, f) # {}
        /\ \E call \in [1..Len(arts) -> StoreCalls],
              id \in [1..Len(arts) -> StoreAnalysisIds] :
            prospects_new' =
                [k \in 1..Len(arts) |->
                    IF arts[k].articleID \in FilteredIds(arts, f)
                    THEN analyze_article(arts[k], call[k], id[k])
                    ELSE arts[k]]
        /\ UNCHANGED <<prospects_kept, otherThanStore>>

\* keep_article: the record takes the place of the kept record with its
\* articleID, or goes to the end of the kept file.
\* article.get('articleID'): None (0) for a record without the field
NoId == 0
IdOf(a) == Get(a, "articleID", NoId)

\* a slip of keep_article: the record is appended whether or not its
\* articleID is kept already
keep_article_append(kept, a) == Append(kept, a)

keep_article(kept, a) ==
    IF \E k \in 1..Len(kept) : IdOf(kept[k]) = IdOf(a)
    THEN LET first == CHOOSE k \in 1..Len(kept) :
                        /\ IdOf(kept[k]) = IdOf(a)
                        /\ \A m \in 1..(k - 1) : IdOf(kept[m]) # IdOf(a)
         IN  [kept EXCEPT ![first] = a]
    ELSE Append(kept, a)

\* keep_all_articles: keep_article for each in turn.
RECURSIVE keep_all_articles(_, _)
keep_all_articles(kept, arts) ==
    IF arts = <<>> THEN kept
    ELSE keep_all_articles(keep_article(kept, Head(arts)), Tail(arts))

\* Keep All: the filtered records go to data/prospects-kept.json.
KeepAll ==
    \E f \in AnalyzedFilters :
        LET arts == load_data(prospects_new) IN
        /\ FilteredIds(arts, f) # {}
        /\ prospects_kept' = keep_all_articles(prospects_kept, Filtered(arts, f))
        /\ UNCHANGED <<prospects_new, otherThanStore>>

\* The list of the page draws a row per filtered record; drawing a row reads
\* article['confidence'] and article['title'], and a KeyError there stops
\* the script before the row's buttons and every later row.
RowDrawn(rows, j) ==
    \A m \in 1..j :
        "confidence" \in DOMAIN rows[m] /\ "title" \in DOMAIN rows[m]

\* The Analyze button of a row: analyze_article of the record, put back in
\* its place, then save_json_file.
AnalyzeOne ==
    \E f \in AnalyzedFilters :
        LET arts == load_data(prospects_new)
            rows == Filtered(arts, f)
        IN  \E j \in 1..Len(rows), call \in StoreCalls, id \in StoreAnalysisIds :
            /\ RowDrawn(rows, j)
            /\ prospects_new' =
                    [k \in 1..Len(arts) |->
                        IF arts[k].articleID = rows[j].articleID
                        THEN analyze_article(rows[j], call, id)
                        ELSE arts[k]]
            /\ UNCHANGED <<prospects_kept, otherThanStore>>

\* The Keep button of a row.
KeepOne ==
    \E f \in AnalyzedFilters :
        LET rows == Filtered(load_data(prospects_new), f)
        IN  \E j \in 1..Len(rows) :
            /\ RowDrawn(rows, j)
            /\ prospects_kept' = keep_article(prospects_kept, rows[j])
            /\ UNCHANGED <<prospects_new, otherThanStore>>

\* load_kept_data of the Mining page: the kept file, its records numbered
\* (index) when the first one has an articleID. The cached copy lives ten
\* seconds; this is the load after that.
Mining_load_kept_data ==
    LET file == prospects_kept IN
    IF file = <<>> THEN <<>>
    ELSE IF "articleID" \notin DOMAIN file[1] THEN file
    ELSE [k \in 1..Len(file) |-> Put(file[k], "index", k - 1)]

\* load_kept_data of the Collecting page: its KEPT_ARTICLES_FILE is
\* data/articles-kept.json, a file no page writes.
Collecting_load_kept_data == articles_kept

StoreInit ==
    /\ WalkIdle
    /\ ReviewIdle
    /\ IdentIdle
    /\ AnalyzeIdle
    /\ StoreIdle
    /\ CleanIdle
    /\ ExtractIdle
    /\ PageIdle
    /\ KeptIdle

StoreNext == Survey \/ AnalyzeAll \/ KeepAll \/ AnalyzeOne \/ KeepOne
StoreSpec == StoreInit /\ [][StoreNext]_vars

\* ----------------------------------------------------------------- clean_text
MaxRuns == 3         \* runs of characters in a text given to clean_text

\* A text is a sequence of runs; a run is n characters of one kind: a
\* character that is no whitespace, a space, or a newline (standing for
\* every whitespace that is no space). Adjacent runs differ in kind.
Letter == "x"
Space == " "
Newline == "nl"
Run(c, n) == [n |-> n, c |-> c]
IsSpace(c) == c = Space \/ c = Newline

RECURSIVE Canon(_)
Canon(runs) ==
    IF Len(runs) < 2 THEN runs
    ELSE IF runs[1].c = runs[2].c
    THEN Canon(<<Run(runs[1].c, runs[1].n + runs[2].n)>>
               \o SubSeq(runs, 3, Len(runs)))
    ELSE <<runs[1]>> \o Canon(Tail(runs))

\* len(text)
RECURSIVE Length(_)
Length(t) == IF t = <<>> THEN 0 ELSE t[1].n + Length(Tail(t))

\* text[:n]
RECURSIVE Take(_, _)
Take(t, n) ==
    IF n = 0 \/ t = <<>> THEN <<>>
    ELSE IF t[1].n <= n THEN <<t[1]>> \o Take(Tail(t), n - t[1].n)
    ELSE <<Run(t[1].c, n)>>

\* re.sub(r'\s+', ' ', text): every stretch of whitespace becomes one space.
Collapse(t) ==
    LET spaced == Canon([k \in 1..Len(t) |->
                    IF IsSpace(t[k].c) THEN Run(Space, t[k].n) ELSE t[k]])
    IN  [k \in 1..Len(spaced) |->
            IF spaced[k].c = Space THEN Run(Space, 1) ELSE spaced[k]]

\* The runs of whitespace the text starts with.
RECURSIVE Stretch(_)
Stretch(t) ==
    IF t = <<>> THEN <<>>
    ELSE IF IsSpace(t[1].c) THEN <<t[1]>> \o Stretch(Tail(t))
    ELSE <<>>

\* re.sub(r'\n\s*\n', '\n', text): in a stretch of whitespace with two
\* newlines or more, what lies from the first newline to the last becomes
\* one newline.
RECURSIVE EmptyLines(_)
EmptyLines(t) ==
    IF t = <<>> THEN <<>>
    ELSE IF ~IsSpace(t[1].c) THEN <<t[1]>> \o EmptyLines(Tail(t))
    ELSE LET w == Stretch(t)
             nls == {k \in 1..Len(w) : w[k].c = Newline}
             first == CHOOSE k \in nls : \A m \in nls : k <= m
             last == CHOOSE k \in nls : \A m \in nls : k >= m
             lines == Length(SelectSeq(w, LAMBDA r : r.c = Newline))
         IN  (IF lines >= 2
              THEN SubSeq(w, 1, first - 1) \o <<Run(Newline, 1)>>
                   \o SubSeq(w, last + 1, Len(w))
              ELSE w) \o EmptyLines(SubSeq(t, Len(w) + 1, Len(t)))

\* text.strip()
Strip(t) ==
    LET ns == {k \in 1..Len(t) : ~IsSpace(t[k].c)} IN
    IF ns = {} THEN <<>>
    ELSE SubSeq(t, CHOOSE k \in ns : \A m \in ns : k <= m,
                   CHOOSE k \in ns : \A m \in ns : k >= m)

\* "... [content truncated for length]"
Marker ==
    <<Run(Letter, 3), Run(Space, 1), Run(Letter, 8), Run(Space, 1),
      Run(Letter, 9), Run(Space, 1), Run(Letter, 3), Run(Space, 1),
      Run(Letter, 7)>>

TextLimit == 10000

\* a slip of the length test: a text of exactly the limit is truncated too
clean_text_atLimit(t) ==
    LET a == Strip(EmptyLines(Collapse(t))) IN
    IF Length(a) >= TextLimit THEN Canon(Take(a, TextLimit) \o Marker) ELSE a

clean_text(t) ==
    LET a == Strip(EmptyLines(Collapse(t))) IN
    IF Length(a) > TextLimit THEN Canon(Take(a, TextLimit) \o Marker) ELSE a

\* The texts given: runs of every kind, short, about half the limit, and
\* at the limit.
RunLengths == {1, 2, 5000, 9999, 10000}
Runs == {Run(c, n) : c \in {Letter, Space, Newline}, n \in RunLengths}
Texts == {Canon(r) : r \in SeqsUpTo(Runs, MaxRuns)}

CleanInit ==
    /\ WalkIdle
    /\ ReviewIdle
    /\ IdentIdle
    /\ AnalyzeIdle
    /\ StoreIdle
    /\ ExtractIdle
    /\ PageIdle
    /\ KeptIdle
    /\ raw_text \in Texts
    /\ cleaned_text = <<>>
    /\ cpc = "Start"

\* clean_text of the text.
CleanText ==
    /\ cpc = "Start"
    /\ cleaned_text' = clean_text(raw_text)
    /\ cpc' = "Once"
    /\ UNCHANGED <<raw_text, otherThanClean>>

\* clean_text of a text clean_text returned.
CleanTextAgain ==
    /\ cpc = "Once"
    /\ raw_text' = cleaned_text
    /\ cleaned_text' = clean_text(cleaned_text)
    /\ cpc' = "Twice"
    /\ UNCHANGED otherThanClean

CleanNext == CleanText \/ CleanTextAgain
CleanSpec == CleanInit /\ [][CleanNext]_vars

\* ------------------------------------------------ extract_articles_chainstoreage
MaxElements == 2     \* cards, teaser cards and JSON items of one page, each

\* An element of the page, as far as the loops read it: its title (Absent
\* when the card has no heading link, or the item no title) and its link.
PageElements == {[url |-> "u1", title |-> tl] : tl \in Titles \cup {Absent}}

HasTitle(articles_so_far, title) ==
    \E k \in 1..Len(articles_so_far) : articles_so_far[k].title = title

\* The loop over the cards: every card with a title is appended.
RECURSIVE ScanCards(_, _)
ScanCards(acc, cards) ==
    IF cards = <<>> THEN acc
    ELSE ScanCards(IF Head(cards).title # Absent
                   THEN Append(acc, Head(cards)) ELSE acc, Tail(cards))

\* The loops over the teaser cards and over the items of the embedded JSON:
\* an element is appended when it has a title no article of the list has.
RECURSIVE ScanUnlessListed(_, _)
ScanUnlessListed(acc, elements) ==
    IF elements = <<>> THEN acc
    ELSE ScanUnlessListed(
            IF Head(elements).title # Absent
               /\ ~HasTitle(acc, Head(elements).title)
            THEN Append(acc, Head(elements)) ELSE acc, Tail(elements))

ExtractInit ==
    /\ WalkIdle
    /\ ReviewIdle
    /\ IdentIdle
    /\ AnalyzeIdle
    /\ StoreIdle
    /\ CleanIdle
    /\ PageIdle
    /\ KeptIdle
    /\ soup \in [cards : SeqsUpTo(PageElements, MaxElements),
                  teaser_cards : SeqsUpTo(PageElements, MaxElements),
                  json_items : SeqsUpTo(PageElements, MaxElements)]
    /\ extracted = <<>>
    /\ epc = "Cards"

ExtractCards ==
    /\ epc = "Cards"
    /\ extracted' = ScanCards(extracted, soup.cards)
    /\ epc' = "Teasers"
    /\ UNCHANGED <<soup, otherThanExtract>>

ExtractTeasers ==
    /\ epc = "Teasers"
    /\ extracted' = ScanUnlessListed(extracted, soup.teaser_cards)
    /\ epc' = "Scripts"
    /\ UNCHANGED <<soup, otherThanExtract>>

ExtractItems ==
    /\ epc = "Scripts"
    /\ extracted' = ScanUnlessListed(extracted, soup.json_items)
    /\ epc' = "Done"
    /\ UNCHANGED <<soup, otherThanExtract>>

ExtractNext == ExtractCards \/ ExtractTeasers \/ ExtractItems
ExtractSpec == ExtractInit /\ [][ExtractNext]_vars

\* ------------------------------- Analyze All and Keep All, one script run at a time
\* The new-prospects file when the Prospecting page is opened: no survey
\* yet, or the reviewed records of a survey.
PageFiles ==
    {<<>>} \cup
    {LET r == ParseBatch(CleanReply(raw), LoadedArticles(SiteIds))
     IN  [k \in 1..Len(r.added) |-> r.added[k].rec] :
        raw \in {SurveyArray(LoadedArticles(SiteIds), FALSE), <<PROSE>>}}

PageInit ==
    /\ WalkIdle
    /\ ReviewIdle
    /\ IdentIdle
    /\ AnalyzeIdle
    /\ CleanIdle
    /\ ExtractIdle
    /\ PageIdle
    /\ KeptIdle
    /\ prospects_new \in PageFiles
    /\ prospects_kept = <<>>
    /\ articles_kept = <<>>

\* No flag is set: the two buttons are shown.
ButtonsShown == ~analyze_process_started /\ ~keep_process_started

\* The user picks a value in the Analyzed select box.
SelectAnalyzed ==
    /\ \E f \in AnalyzedFilters : analyzed_filter' = f
    /\ UNCHANGED <<analyze_process_started, analyze_process_complete,
                   keep_process_started, keep_process_complete, otherThanPage>>

\* on_click of Analyze All
start_analyze_processing ==
    /\ ButtonsShown
    /\ analyze_process_started' = TRUE
    /\ UNCHANGED <<analyze_process_complete, keep_process_started,
                   keep_process_complete, analyzed_filter, otherThanPage>>

\* on_click of Keep All
start_keep_processing ==
    /\ ButtonsShown
    /\ keep_process_started' = TRUE
    /\ UNCHANGED <<analyze_process_started, analyze_process_complete,
                   keep_process_complete, analyzed_filter, otherThanPage>>

\* The script run after Analyze All was pressed: the filtered records are
\* analyzed and saved, if any; the run is marked complete either way.
ProcessAnalyzeAll ==
    /\ analyze_process_started /\ ~analyze_process_complete
    /\ LET arts == load_data(prospects_new) IN
        IF FilteredIds(arts, analyzed_filter) # {}
        THEN \E call \in [1..Len(arts) -> StoreCalls],
                id \in [1..Len(arts) -> StoreAnalysisIds] :
                prospects_new' =
                    [k \in 1..Len(arts) |->
                        IF arts[k].articleID
                               \in FilteredIds(arts, analyzed_filter)
                        THEN analyze_article(arts[k], call[k], id[k])
                        ELSE arts[k]]
        ELSE prospects_new' = prospects_new
    /\ analyze_process_complete' = TRUE
    /\ UNCHANGED <<analyze_process_started, keep_process_started,
                   keep_process_complete, analyzed_filter, prospects_kept,
                   otherThanProspecting>>

\* The script run after Keep All was pressed: the filtered records are
\* kept and the run is marked complete, if there are any; st.rerun() either
\* way.
ProcessKeepAll ==
    /\ keep_process_started /\ ~keep_process_complete
    /\ LET arts == load_data(prospects_new) IN
        IF FilteredIds(arts, analyzed_filter) # {}
        THEN /\ prospects_kept' =
                    keep_all_articles(prospects_kept,
                                      Filtered(arts, analyzed_filter))
             /\ keep_process_complete' = TRUE
        ELSE UNCHANGED <<prospects_kept, keep_process_complete>>
    /\ UNCHANGED <<analyze_process_started, analyze_process_complete,
                   keep_process_started, analyzed_filter, prospects_new,
                   otherThanProspecting>>

\* The script run that shows the outcome: reset_processing.
reset_processing ==
    /\ analyze_process_complete \/ keep_process_complete
    /\ analyze_process_started' = FALSE
    /\ analyze_process_complete' = FALSE
    /\ keep_process_started' = FALSE
    /\ keep_process_complete' = FALSE
    /\ UNCHANGED <<analyzed_filter, otherThanPage>>

PageNext ==
    \/ SelectAnalyzed
    \/ start_analyze_processing
    \/ start_keep_processing
    \/ ProcessAnalyzeAll
    \/ ProcessKeepAll
    \/ reset_processing

PageSpec == PageInit /\ [][PageNext]_vars

\* The script runs that follow a click happen without the user.
PageFairSpec ==
    /\ PageSpec
    /\ WF_vars(ProcessAnalyzeAll)
    /\ WF_vars(ProcessKeepAll)
    /\ WF_vars(reset_processing)

\* ------------------------------------------------------- the kept file's calls
MaxKeepAll == 2      \* records in one call of keep_all_articles

\* The records kept: two versions of article 1 and of article 2, and a
\* record without an articleID.
KeptRecords ==
    {[articleID |-> id, title |-> tl] : id \in SiteIds, tl \in Titles}
    \cup {[title |-> "t1"]}

\* The articleIDs remove_article is called with: one more than the kept
\* records have.
RemoveIds == 1..(NumSiteArticles + 1)

\* remove_article: the list without the records of that articleID.
remove_article(kept, article_id) ==
    SelectSeq(kept, LAMBDA a : IdOf(a) # article_id)

KeptInit ==
    /\ WalkIdle
    /\ ReviewIdle
    /\ IdentIdle
    /\ AnalyzeIdle
    /\ StoreIdle
    /\ CleanIdle
    /\ ExtractIdle
    /\ PageIdle
    /\ KeptIdle

\* keep_article(article, kept_file): the list is loaded, the record replaces
\* or joins, the list is written, True is returned.
KeepArticle ==
    \E a \in KeptRecords :
        /\ kept_call' = [articles |-> <<a>>, op |-> "keep_article",
                         article_id |-> NoId]
        /\ kept_articles' = prospects_kept
        /\ prospects_kept' = keep_article(prospects_kept, a)
        /\ kept_returned' = TRUE
        /\ UNCHANGED <<prospects_new, otherThanKept>>

\* keep_all_articles(articles, kept_file): keep_article for each record, the
\* number of True returned. kept_articles is what the last of them loaded.
KeepAllArticles ==
    \E list \in SeqsUpTo(KeptRecords, MaxKeepAll) :
        /\ kept_call' = [articles |-> list, op |-> "keep_all_articles",
                         article_id |-> NoId]
        /\ kept_articles' =
                IF list = <<>> THEN kept_articles
                ELSE keep_all_articles(prospects_kept,
                                       SubSeq(list, 1, Len(list) - 1))
        /\ prospects_kept' = keep_all_articles(prospects_kept, list)
        /\ kept_returned' = Len(list)
        /\ UNCHANGED <<prospects_new, otherThanKept>>

\* remove_article(article_id, kept_file): the file is written only when a
\* record went; True is returned then, False otherwise.
RemoveArticle ==
    \E id \in RemoveIds :
        /\ kept_call' = [articles |-> <<>>, op |-> "remove_article",
                         article_id |-> id]
        /\ kept_articles' = prospects_kept
        /\ prospects_kept' = remove_article(prospects_kept, id)
        /\ kept_returned' =
                (Len(remove_article(prospects_kept, id)) < Len(prospects_kept))
        /\ UNCHANGED <<prospects_new, otherThanKept>>

KeptNext == KeepArticle \/ KeepAllArticles \/ RemoveArticle
KeptSpec == KeptInit /\ [][KeptNext]_vars

Init == WalkInit
Next == WalkNext
Spec == Init /\ [][Next]_vars

\* Each step of the walk is a blocking call that returns (the fetch has a
\* timeout), so a walk that can take a step takes it.
WalkFairSpec == WalkInit /\ [][WalkNext]_vars /\ WF_vars(WalkNext)

\* ------------------------------------------------------------- walker claims
\* The stubs of the first n listing pages from page p on, following the next
\* links, in page-then-in-page order.
RECURSIVE Listing(_, _)
Listing(p, n) ==
    IF n = 0 \/ p = 0 THEN <<>>
    ELSE site[p].articles \o Listing(site[p].next, n - 1)

\* page_count still counts the pages fetched, and the accumulator holds them.
WalkInBounds == page_count <= NumPages

\* The positions of s whose stub is dated strictly before the cutoff.
OldAt(s) ==
    {k \in 1..Len(s) :
        ArticleDate(s[k]) # NoDate /\ ArticleDate(s[k]) < cutoff_date}

FirstOld(s) == CHOOSE k \in OldAt(s) : \A j \in OldAt(s) : k <= j

UpToFirstOld(s) == IF OldAt(s) = {} THEN s ELSE SubSeq(s, 1, FirstOld(s))

C3_WalkTerminates == <>(wpc = "Done")

\* C10: a failed listing fetch ends the walk at once with the stubs of the
\* pages fetched before it, unchanged and in order, and nothing more is
\* fetched.
C10_FailureKeepsPartial ==
    (wpc = "Done" /\ ~data.ok /\ WalkInBounds)
        => /\ all_articles = Listing(1, page_count - 1)
           /\ ~ENABLED WalkNext

\* The second fetch failed after a first page of two stubs was scanned.
C10_Witness ==
    /\ wpc = "Done" /\ ~data.ok /\ page_count = 2
    /\ Len(all_articles) = 2
    /\ ~reached_cutoff

\* Neither the stub's date nor its date_from_url gives a date.
Unresolved(article) ==
    parse_date(article.date) = NoDate /\ parse_date(article.date_from_url) = NoDate

\* C11: scanning a stub whose date cannot be resolved appends it to the
\* output, leaves reached_cutoff as it was and goes on with the next stub of
\* the page.
C11_UndatedRetained ==
    [][(wpc = "Scanning" /\ Unresolved(data.articles[idx])
            /\ Len(all_articles) < MaxArticles)
        => /\ all_articles' = Append(all_articles, data.articles[idx])
           /\ reached_cutoff' = reached_cutoff
           /\ idx < Len(data.articles) => (wpc' = "Scanning" /\ idx' = idx + 1)
           /\ idx = Len(data.articles) => wpc' = "Paging"]_vars

\* The first stub of a page had no date at all: it was kept and the scan is
\* at the second stub.
C11_Witness ==
    /\ wpc = "Scanning" /\ idx = 2 /\ ~reached_cutoff
    /\ data.articles[1].date = NoDate /\ data.articles[1].date_from_url = NoDate
    /\ all_articles # <<>>
    /\ all_articles[Len(all_articles)] = data.articles[1]

\* C12: the output of a finished walk holds no stub whose resolved date is
\* strictly before the cutoff.
C12_NoStubBeforeCutoff ==
    wpc = "Done" => OldAt(all_articles) = {}

\* the explicit date when it is a date, else the URL's date when it is one
ResolvedDate(stub) ==
    IF parse_date(stub.date) # NoDate THEN parse_date(stub.date)
    ELSE parse_date(stub.date_from_url)

\* C25: the walker compares the resolved date of each stub with the cutoff:
\* a stub whose resolved date is earlier than the cutoff stops the walk, also
\* when the date comes from the URL beside an explicit date that is no date.
C25_ResolvedDateTriggersCutoff ==
    [][(/\ wpc = "Scanning"
        /\ ResolvedDate(data.articles[idx]) # NoDate
        /\ ResolvedDate(data.articles[idx]) < cutoff_date)
       => reached_cutoff']_vars

\* ----------------------------------------------------------- reviewer claims
LastPrompt == prompts[Len(prompts)]

\* C2: the output of a finished review holds a record for every input stub,
\* whatever the replies were.
C2_NoArticleDropped ==
    rpc = "Done" =>
        \A j \in 1..Len(articles) :
            \E k \in 1..Len(all_results) :
                /\ all_results[k].kind = "dict"
                /\ "articleID" \in DOMAIN all_results[k].rec
                /\ all_results[k].rec.articleID = articles[j].articleID

\* No repair step parses the text: not as it is, not wrapped in brackets, not
\* its brace span wrapped in brackets.
AllRepairsFail(text) ==
    /\ ~json_loads(text).ok
    /\ ~json_loads(<<LB>> \o text \o <<RB>>).ok
    /\ BracePositions(text) # {}
        => ~json_loads(<<LB>> \o BraceSpan(text) \o <<RB>>).ok

\* C4: when every repair step fails for a batch, review appends exactly one
\* record per stub of that batch, in order, each with compatibility 0,
\* company "" and location "".
C4_GarbageSynthesized ==
    [][(rpc = "Loop" /\ prompts' # prompts /\ AllRepairsFail(llm_response'))
        => /\ Len(all_results') = Len(all_results) + Len(prompts'[Len(prompts')])
           /\ SubSeq(all_results', 1, Len(all_results)) = all_results
           /\ \A k \in 1..Len(prompts'[Len(prompts')]) :
                LET e == all_results'[Len(all_results) + k]
                IN  /\ e.kind = "dict"
                    /\ e.rec.articleID = prompts'[Len(prompts')][k].articleID
                    /\ e.rec.compatibility = 0
                    /\ e.rec.company = ""
                    /\ e.rec.location = ""]_vars

\* Prose came back for the second batch of a list of 11: five records with
\* the defaults were appended for its five stubs.
C4_Witness ==
    /\ rpc = "Done" /\ Len(prompts) = 2 /\ Len(LastPrompt) = 5
    /\ response_text = <<PROSE>>
    /\ AllRepairsFail(llm_response)
    /\ all_results[Len(all_results)].kind = "dict"
    /\ all_results[Len(all_results)].rec.articleID = 11
    /\ all_results[Len(all_results)].rec.compatibility = 0

\* C5: a reply that is one bare object adds what parsing [{...}] gives: a
\* one-element list holding that object.
C5_BareObjectWrapped ==
    [][(rpc = "Loop" /\ Len(response_text') = 1 /\ response_text'[1].t = "obj")
        => all_results' = all_results \o <<DictElem(response_text'[1].obj)>>]_vars

\* C6: a reply that is one well-formed array of k objects adds exactly those
\* k objects in order, the direct parse of the reply.
C6_ArrayRoundTrip ==
    [][(rpc = "Loop" /\ json_loads(response_text').ok
            /\ json_loads(response_text').type = "list")
        => all_results' = all_results \o
             [k \in 1..Len(json_loads(response_text').items) |->
                 DictElem(json_loads(response_text').items[k])]]_vars

\* C7: for 1 to 120 stubs review makes exactly `batches` calls of at most
\* `batch_size` stubs, with batches = 1 and batch_size = count up to 10 stubs
\* and batches = count div 10 + 1, batch_size = count div batches + 1 above.
C7_BatchCount ==
    (rpc = "Done" /\ total_articles \in 1..120) =>
        LET batches == IF total_articles <= 10 THEN 1
                       ELSE (total_articles \div 10) + 1
            size == IF total_articles <= 10 THEN total_articles
                    ELSE (total_articles \div batches) + 1
        IN  /\ Len(prompts) = batches
            /\ \A b \in 1..Len(prompts) : Len(prompts[b]) <= size

RECURSIVE Concat(_)
Concat(seqs) == IF seqs = <<>> THEN <<>> ELSE Head(seqs) \o Concat(Tail(seqs))

\* C8: the batches are consecutive slices of the input: concatenated in
\* processing order they give the input list, no stub left out or repeated.
C8_BatchesPartition ==
    /\ rpc \in {"Done", "Loop"} =>
          /\ Len(Concat(prompts)) <= Len(articles)
          /\ Concat(prompts) = SubSeq(articles, 1, Len(Concat(prompts)))
    /\ rpc = "Done" => Concat(prompts) = articles

\* 25 stubs were reviewed in three batches.
C8_Witness ==
    rpc = "Done" /\ Len(articles) = 25 /\ Len(prompts) = 3

\* C9: every batch sent to the LLM holds at least 1 and at most 10 stubs.
C9_BatchWithinTen ==
    \A b \in 1..Len(prompts) : Len(prompts[b]) >= 1 /\ Len(prompts[b]) <= 10

\* A list of more than 10 stubs was cut into batches, one of them of 10.
C9_Witness ==
    /\ rpc = "Done" /\ Len(prompts) >= 2
    /\ \E b \in 1..Len(prompts) : Len(prompts[b]) = 10
    /\ \E b \in 1..Len(prompts) : Len(prompts[b]) < 10

\* C13: a batch whose reply fails every repair step touches nothing but its
\* own records: the records of the earlier batches stay where they are, ahead
\* of the new ones; what a batch adds is given by its own slice and its own
\* reply alone; and after a failed batch the loop goes on with the slice that
\* follows, as after any other batch.
C13_BatchFailureIsolated ==
    [][(rpc = "Loop" /\ prompts' # prompts)
        => /\ Len(all_results') >= Len(all_results)
           /\ SubSeq(all_results', 1, Len(all_results)) = all_results
           /\ SubSeq(all_results', Len(all_results) + 1, Len(all_results'))
                = ParseBatch(llm_response', BatchAt(articles, i, batch_size)).added
           /\ AllRepairsFail(llm_response')
                => /\ i' = i + batch_size
                   /\ rpc' = IF i' < total_articles THEN "Loop" ELSE "Done"
                   /\ UNCHANGED <<articles, total_articles, batch_size>>]_vars

\* Of a list of 11 the first batch of six failed and the second came back as
\* asked: six records with the defaults, then the five reviewed ones, in the
\* order of the input.
C13_Witness ==
    /\ rpc = "Done" /\ Len(articles) = 11 /\ Len(prompts) = 2
    /\ Len(all_results) = 11
    /\ \A k \in 1..11 :
        /\ all_results[k].kind = "dict"
        /\ all_results[k].rec.articleID = k
        /\ all_results[k].rec.company = IF k <= 6 THEN "" ELSE "Acme"

\* C26: the review of an empty list ends normally with an empty result and
\* no call of the LLM.
C26_EmptyReviewReturnsEmpty ==
    (articles = <<>> /\ rpc # "Start") =>
        (rpc = "Done" /\ all_results = <<>> /\ prompts = <<>>)

\* C29: every element of the list review builds is a record, never a string
\* or another scalar, whatever call_bedrock_llm handed back.
C29_EveryResultIsRecord ==
    \A k \in 1..Len(all_results) : all_results[k].kind = "dict"

\* ---------------------------------------------------------- identity claims
\* C14: every stub gets an articleID, the ID is given by the URL string
\* alone (stubs with the same URL get the same ID whatever their title, date
\* or position), and the stubs with an empty or missing URL all get one ID.
C14_IdentityByUrl ==
    /\ ipc # "Raised"
    /\ ipc = "Done" => Len(clean_articles) = Len(stubs)
    /\ \A j, k \in 1..Len(clean_articles) :
          LET NoUrl(a) == a.url \in {"", NoneUrl}
          IN  (stubs[j].url = stubs[k].url \/ (NoUrl(stubs[j]) /\ NoUrl(stubs[k])))
                => clean_articles[j].articleID = clean_articles[k].articleID

\* C30: the records of one crawl have pairwise distinct articleIDs.
C30_DistinctArticleIDs ==
    \A j, k \in 1..Len(clean_articles) :
        j # k => clean_articles[j].articleID # clean_articles[k].articleID

\* ---------------------------------------------------------- analyzer claims
\* The object the reply gave, when the call returned and the parse gave one.
ReplyGaveObject ==
    /\ ~llm_call.raised /\ llm_call.text # <<>>
    /\ ParseAnalysis(llm_call.text).ok
    /\ ParseAnalysis(llm_call.text).type = "dict"
ReplyObject == ParseAnalysis(llm_call.text).items[1]

\* The reply gives no value for the key: no object, no such key, or "".
ReplyOmits(key) ==
    ~ReplyGaveObject \/ key \notin DOMAIN ReplyObject \/ ReplyObject[key] = ""

\* The returned record has the field exactly as the input record has it.
SameField(key) ==
    /\ key \in DOMAIN analyzed_article <=> key \in DOMAIN article_in
    /\ key \in DOMAIN article_in => analyzed_article[key] = article_in[key]

\* C15: when the reply omits analysis_company (analysis_location), gives it
\* empty, or cannot be parsed, the returned record's company (location) is
\* the input record's.
C15_CompanyLocationKept ==
    apc = "Done" =>
        /\ ReplyOmits("analysis_company") => SameField("company")
        /\ ReplyOmits("analysis_location") => SameField("location")

\* The reply gave an empty company and a location: the company of the input
\* stayed, the location was replaced.
C15_Witness ==
    /\ apc = "Done" /\ ReplyGaveObject
    /\ "analysis_company" \in DOMAIN ReplyObject
    /\ ReplyObject.analysis_company = ""
    /\ "company" \in DOMAIN article_in /\ article_in.company = "Acme"
    /\ analyzed_article.company = "Acme"
    /\ "location" \in DOMAIN analyzed_article
    /\ analyzed_article.location = "Rome"

\* C16: the record analyze returns has an analysis with a non-empty
\* analysis_id and an analysis_date, whatever the call and the reply were.
C16_AnalysisStamped ==
    apc = "Done" =>
        /\ "analysis" \in DOMAIN analyzed_article
        /\ "analysis_id" \in DOMAIN analyzed_article.analysis
        /\ analyzed_article.analysis.analysis_id # ""
        /\ "analysis_date" \in DOMAIN analyzed_article.analysis

\* The call of the LLM raised: the analysis holds the error, an id and a date.
C16_Witness ==
    /\ apc = "Done" /\ llm_call.raised
    /\ "error" \in DOMAIN analyzed_article.analysis
    /\ analyzed_article.analysis.analysis_id \in AnalysisIds
    /\ analyzed_article.analysis.analysis_date = now

\* C17: the analysis of the returned record has original_compatibility, equal
\* to the score of the input record, whatever the input and the reply were.
C17_OriginalScoreCopied ==
    apc = "Done" =>
        /\ "original_compatibility" \in DOMAIN analyzed_article.analysis
        /\ "compatibility" \in DOMAIN article_in =>
             analyzed_article.analysis.original_compatibility
                = article_in.compatibility

\* The kinds of value that read as a number.
Numeric(v) == v.kind \in {"int", "float", "numstr"}

ReplyHasNumericScore ==
    /\ ReplyGaveObject
    /\ "analysis_compatibility" \in DOMAIN ReplyObject
    /\ Numeric(ReplyObject.analysis_compatibility)

C19_FieldsUntouched ==
    [][apc = "Call" =>
        /\ article_in' = article_in
        /\ \A key \in {"url", "date", "articleID", "title", "excerpt"} :
            /\ key \in DOMAIN analyzed_article'
            /\ analyzed_article'[key] = article_in[key]]_vars

\* A record without an analysis was analyzed: the returned record has one and
\* a new score, the caller's record has neither.
C19_Witness ==
    /\ apc = "Done"
    /\ "analysis" \notin DOMAIN article_in
    /\ "analysis" \in DOMAIN analyzed_article
    /\ "compatibility" \in DOMAIN article_in
    /\ article_in.compatibility = 80 /\ analyzed_article.compatibility = 85
    /\ analyzed_article.title = article_in.title

\* C22: the score of a record analyze_article returns is an integer from 0
\* to 100, whatever score the reply holds.
C22_ScoreInRange ==
    (apc = "Done" /\ "compatibility" \in DOMAIN analyzed_article) =>
        analyzed_article.compatibility \in 0..100

\* --------------------------------------------------------- data file claims
InNew(file, id) == \E k \in 1..Len(file) : file[k].articleID = id

\* C20: a record that is in the new-prospects file is still there after any
\* survey, analyze, analyze-all or keep.
C20_NewProspectsStay ==
    [][\A id \in SiteIds :
        InNew(prospects_new, id) => InNew(prospects_new', id)]_vars

\* C21: an article kept in Prospecting is in the kept set Mining loads and in
\* the kept set Collecting loads.
C21_KeptReachesNextSteps ==
    \A id \in SiteIds :
        InNew(prospects_kept, id) =>
            /\ InNew(Mining_load_kept_data, id)
            /\ InNew(Collecting_load_kept_data, id)

\* ----------------------------------------------------------- clean_text claims
\* text[n:]
RECURSIVE Drop(_, _)
Drop(t, n) ==
    IF n = 0 \/ t = <<>> THEN t
    ELSE IF t[1].n <= n THEN Drop(Tail(t), n - t[1].n)
    ELSE <<Run(t[1].c, t[1].n - n)>> \o Tail(t)

\* the text with its whitespace collapsed and its ends trimmed
Collapsed(t) == Strip(Collapse(t))

\* C23: a text longer than 10,000 characters once its whitespace is
\* collapsed becomes its first 10,000 characters and the marker; a shorter
\* one is not truncated; cleaning a cleaned text gives the same text.
C23_TruncatesAndIdempotent ==
    /\ cpc = "Once" =>
         IF Length(Collapsed(raw_text)) > 10000
         THEN /\ Take(cleaned_text, 10000) = Take(Collapsed(raw_text), 10000)
              /\ Drop(cleaned_text, 10000) = Marker
         ELSE cleaned_text = Collapsed(raw_text)
    /\ cpc = "Twice" => cleaned_text = raw_text

\* a truncated text has been cleaned again
C23_Witness ==
    /\ cpc = "Twice"
    /\ Length(raw_text) = 10000 + Length(Marker)
    /\ Drop(cleaned_text, 10000) = Marker

\* ------------------------------------------------------------ extractor claims
\* C24: the list extracted from a page never holds two stubs with the same
\* title.
C24_NoDuplicateTitle ==
    \A j, k \in 1..Len(extracted) :
        j # k => extracted[j].title # extracted[k].title

\* --------------------------------------------------- Prospecting page claims
\* C27: once Analyze All or Keep All has been started, the page comes back
\* to the state where the four flags are false and the buttons are shown.
C27_ReturnsToIdle ==
    (analyze_process_started \/ keep_process_started) ~>
        (/\ ~analyze_process_started /\ ~analyze_process_complete
         /\ ~keep_process_started /\ ~keep_process_complete)

\* ------------------------------------------------------------ kept file claims
KeptIds(kept) == {IdOf(kept[k]) : k \in 1..Len(kept)}

\* C28: the kept file holds at most one record per articleID; keeping a
\* record whose articleID is kept already puts it in the place of the kept
\* one, the other records and the length as they were; removing an
\* articleID that is not kept returns False and leaves the file as it was.
C28_OneRecordPerId ==
    /\ \A j, k \in 1..Len(prospects_kept) :
            j # k => IdOf(prospects_kept[j]) # IdOf(prospects_kept[k])
    /\ (/\ kept_call.op = "keep_article"
        /\ IdOf(kept_call.articles[1]) \in KeptIds(kept_articles))
       => /\ Len(prospects_kept) = Len(kept_articles)
          /\ \A k \in 1..Len(kept_articles) :
                prospects_kept[k] =
                    IF IdOf(kept_articles[k]) = IdOf(kept_call.articles[1])
                    THEN kept_call.articles[1] ELSE kept_articles[k]
    /\ (/\ kept_call.op = "remove_article"
        /\ kept_call.article_id \notin KeptIds(kept_articles))
       => (kept_returned = FALSE /\ prospects_kept = kept_articles)

\* a kept record has been replaced by another version, between two others
C28_Witness ==
    /\ kept_call.op = "keep_article"
    /\ Len(kept_articles) = 3
    /\ IdOf(kept_articles[2]) = IdOf(kept_call.articles[1])
    /\ kept_articles[2] # kept_call.articles[1]
    /\ prospects_kept[2] = kept_call.articles[1]

====
